---------------------------- MODULE Spec2Model ----------------------------
(***************************************************************************)
(* EcoGeoApi (custom_components/ecoforest_ecogeo/overrides/api.py): the    *)
(* register/coil engine of the ecoGEO heat pump integration.               *)
(*                                                                         *)
(* Wire values are strings in the source.  Here a string is a sequence of  *)
(* one-character strings (<<"0","0","f","a">> is "00fa"), so that parsing  *)
(* and formatting are computed character by character.                     *)
(* A float of the source always is a number of tenths or hundredths; it is *)
(* kept as an integer count of those units.                                *)
(***************************************************************************)
EXTENDS Integers, Sequences, FiniteSets, TLC

VARIABLES
    device,   \* the heat pump behind the Transport: [data type -> [address -> raw value]]
    mapping,  \* the field mapping table consulted by the engine (MAPPING)
    pc,       \* where the running coroutine is: "idle", "write", "read", "done"
    op,       \* the public operation in progress: [kind, name]
    req,      \* index of the read request awaited, in poll order (0: none)
    state,    \* get()'s local `state`: [data type -> [address -> raw value]]
    log,      \* the Transport calls of the operation in progress, in order
    result,   \* what the operation returned or raised
    calls,    \* number of write operations called so far
    codec     \* the value codec applied on its own: [at, value, wire, decoded]

vars == <<device, mapping, pc, op, req, state, log, result, calls, codec>>

---------------------------------------------------------------------------
(* Bounds of the model *)

\* write operations called in one behaviour
MaxWrites == 2
\* coils that differ from "0" in an initial device of SpecAlarm
MaxActive == 2
\* model registers that differ from "0000" in an initial device of SpecModel
MaxSymbols == 2
\* largest hundredths digit of a value handed to the encoder in SpecCodec
MaxFrac == 1

---------------------------------------------------------------------------
(* Module-level data of api.py *)

MODEL_ADDRESS == 5323
MODEL_LENGTH == 6

OP_TYPE_GET_SWITCH == 2001
OP_TYPE_SET_SWITCH == 2011
OP_TYPE_GET_REGISTER == 2002
OP_TYPE_SET_REGISTER == 2012

Register == 1
Coil == 2
DataTypes == {Register, Coil}

OperationsGet == (Coil :> 2001) @@ (Register :> 2002)
OperationsSet == (Coil :> 2011) @@ (Register :> 2012)

\* REQUESTS with the first register range one address short
REQUESTS_mutant ==
    (Coil :> << [address |-> 1, length |-> 41],
                [address |-> 83, length |-> 1],
                [address |-> 212, length |-> 15] >>)
    @@
    (Register :> << [address |-> 11, length |-> 30],
                    [address |-> MODEL_ADDRESS, length |-> MODEL_LENGTH,
                     op |-> OP_TYPE_GET_REGISTER] >>)

REQUESTS ==
    (Coil :> << [address |-> 1, length |-> 41],
                [address |-> 83, length |-> 1],
                [address |-> 212, length |-> 15] >>)
    @@
    (Register :> << [address |-> 11, length |-> 31],
                    [address |-> MODEL_ADDRESS, length |-> MODEL_LENGTH,
                     op |-> OP_TYPE_GET_REGISTER] >>)

\* min, max are degrees; step is <<numerator, denominator>> (0.1)
MAPPING ==
    ("t_dhw" :> [data_type |-> Register, type |-> "float", address |-> 11,
                 entity_type |-> "temperature"])
    @@
    ("t_outdoor" :> [data_type |-> Register, type |-> "float", address |-> 20,
                     entity_type |-> "temperature"])
    @@
    ("button_reset_alarms" :> [data_type |-> Coil, type |-> "boolean", address |-> 83,
                               entity_type |-> "button"])
    @@
    ("switch_dhw" :> [data_type |-> Coil, type |-> "boolean", address |-> 213,
                      entity_type |-> "switch"])
    @@
    ("number_dhw_setpoint" :> [data_type |-> Register, type |-> "float", address |-> 40,
                               entity_type |-> "temperature", is_number |-> TRUE,
                               min |-> 0, max |-> 65, step |-> <<1, 10>>])
    @@
    ("number_dhw_dt_start" :> [data_type |-> Register, type |-> "float", address |-> 41,
                               entity_type |-> "temperature", is_number |-> TRUE,
                               min |-> 2, max |-> 25, step |-> <<1, 10>>])
    @@
    ("alarm" :> [data_type |-> Coil, type |-> "custom", entity_type |-> "enum",
                 value_fn |-> "get_alarm"])

\* MAPPING.items() iterates in insertion order
MappingOrder ==
    << "t_dhw", "t_outdoor", "button_reset_alarms", "switch_dhw",
       "number_dhw_setpoint", "number_dhw_dt_start", "alarm" >>

alarm_registers ==
    << 1, 2, 3, 7, 8, 9, 10, 11, 12, 13, 14, 15, 16, 17, 18, 19, 20, 21,
       24, 25, 26, 33, 34, 36, 37, 38, 39, 40, 41,
       212, 213, 214, 215, 216, 217, 218, 219, 220, 221, 222, 223, 224, 225, 226 >>

string_digits == << "0", "1", "2", "3", "4", "5", "6", "7", "8", "9" >>

string_ascii_uppercase ==
    << "A", "B", "C", "D", "E", "F", "G", "H", "I", "J", "K", "L", "M",
       "N", "O", "P", "Q", "R", "S", "T", "U", "V", "W", "X", "Y", "Z" >>

---------------------------------------------------------------------------
(* Python built-ins the engine relies on *)

HexChars ==
    << "0", "1", "2", "3", "4", "5", "6", "7", "8", "9", "a", "b", "c", "d", "e", "f" >>

EmptyMap == [x \in {} |-> 0]

Range(s) == {s[i] : i \in 1..Len(s)}

\* range(address, address + length)
PyRange(address, length) == address..(address + length - 1)

DigitValue(c) == CHOOSE d \in 0..15 : HexChars[d + 1] = c

IsDigit(c, base) == \E d \in 0..(base - 1) : HexChars[d + 1] = c

RECURSIVE DigitsValue(_, _)
DigitsValue(s, base) ==
    IF s = <<>> THEN 0
    ELSE DigitsValue(SubSeq(s, 1, Len(s) - 1), base) * base + DigitValue(s[Len(s)])

\* int(s, base) for a string over lowercase digits and other characters:
\* ValueError unless s is a non-empty run of digits of the base
PyInt(s, base) ==
    IF s = <<>> \/ \E i \in 1..Len(s) : ~IsDigit(s[i], base)
    THEN [ok |-> FALSE, v |-> 0]
    ELSE [ok |-> TRUE, v |-> DigitsValue(s, base)]

RECURSIVE HexDigits(_)
HexDigits(n) ==
    IF n < 16 THEN << HexChars[n + 1] >>
    ELSE HexDigits(n \div 16) \o << HexChars[(n % 16) + 1] >>

\* hex(n)[2:] : hex(n) is "0x.." for n >= 0 and "-0x.." for n < 0
PyHexTail(n) == IF n >= 0 THEN HexDigits(n) ELSE << "x" >> \o HexDigits(-n)

\* s[-n:]
PyLast(s, n) == IF Len(s) <= n THEN s ELSE SubSeq(s, Len(s) - n + 1, Len(s))

\* int(x) of a float given in hundredths times 10: truncation towards zero
PyIntTimes10(hundredths) ==
    IF hundredths >= 0 THEN hundredths \div 10 ELSE -((-hundredths) \div 10)

---------------------------------------------------------------------------
(* Value codec *)

\* typed values of a device_info entry; a float is held in tenths
IntValue(n) == [t |-> "int", v |-> n]
FloatValue(tenths) == [t |-> "float", v |-> tenths]
BoolValue(b) == [t |-> "bool", v |-> IF b THEN 1 ELSE 0]
NoneValue == [t |-> "none", v |-> 0]

convert_to_ecoforest_int(value) ==
    LET v0 == PyIntTimes10(value)
        v1 == IF v0 < 0 THEN v0 + 65536 ELSE v0
    IN PyLast(<< "0", "0", "0", "0" >> \o PyHexTail(v1), 4)

\* parse_ecoforest_int subtracting 65535
parse_ecoforest_int_mutant(value) ==
    LET p == PyInt(value, 16)
    IN IF ~p.ok THEN p
       ELSE [ok |-> TRUE, v |-> IF p.v <= 32768 THEN p.v ELSE p.v - 65535]

parse_ecoforest_int(value) ==
    LET p == PyInt(value, 16)
    IN IF ~p.ok THEN p
       ELSE [ok |-> TRUE, v |-> IF p.v <= 32768 THEN p.v ELSE p.v - 65536]

parse_ecoforest_bool(value) ==
    LET p == PyInt(value, 10)
    IN IF ~p.ok THEN [ok |-> FALSE, v |-> NoneValue]
       ELSE [ok |-> TRUE, v |-> BoolValue(p.v # 0)]

parse_ecoforest_float(value) ==
    LET p == parse_ecoforest_int(value)
    IN IF ~p.ok THEN [ok |-> FALSE, v |-> NoneValue]
       ELSE [ok |-> TRUE, v |-> FloatValue(p.v)]

---------------------------------------------------------------------------
(* Transport responses and their parsing.  self._request (pyecoforest) posts *)
(* the data and returns self._parse of the response body.                   *)

\* A response body "<key>=<status>\n<t1>&<t2>&<v1>&...": its first line split at
\* '=' and its second line split at '&'.
Response(key, status, values) ==
    [key |-> key, status |-> status, fields |-> << <<"d">>, <<"n">> >> \o values]

StatusKeys ==
    {"error_geo_get_reg", "error_geo_get_bit", "error_geo_set_reg", "error_geo_set_bit"}

\* _parse without the test of the status line
_parse_mutant(response) ==
    [ok |-> TRUE, values |-> SubSeq(response.fields, 3, Len(response.fields))]

_parse(response) ==
    IF response.key \notin StatusKeys \/ response.status # "0"
    THEN [ok |-> FALSE, values |-> <<>>]
    ELSE [ok |-> TRUE, values |-> SubSeq(response.fields, 3, Len(response.fields))]

\* the loop of _load_data over the parsed response: IndexError when the response
\* is shorter than the range
_load_data(address, length, response) ==
    IF Len(response) < length
    THEN [ok |-> FALSE, result |-> EmptyMap]
    ELSE [ok |-> TRUE,
          result |-> [i \in PyRange(address, length) |-> response[i - address + 1]]]

---------------------------------------------------------------------------
(* Alarm scan and model name *)

RECURSIVE AlarmScan(_, _)
AlarmScan(data, i) ==
    IF i > Len(alarm_registers) THEN [exc |-> "none", v |-> 0]
    ELSE LET address == alarm_registers[i]
         IN IF address \notin DOMAIN data[Coil] THEN [exc |-> "KeyError", v |-> 0]
            ELSE IF data[Coil][address] = << "0" >> THEN AlarmScan(data, i + 1)
            ELSE [exc |-> "none", v |-> address]

\* get_alarm returning the last active address of the table
get_alarm_mutant(data) ==
    LET active == {i \in 1..Len(alarm_registers) :
                      /\ alarm_registers[i] \in DOMAIN data[Coil]
                      /\ data[Coil][alarm_registers[i]] # << "0" >>}
    IN IF active = {} THEN [exc |-> "none", v |-> 0]
       ELSE [exc |-> "none",
             v |-> alarm_registers[CHOOSE i \in active : \A j \in active : j <= i]]

get_alarm(data) == AlarmScan(data, 1)

\* model_dictionary with a one-character placeholder
model_dictionary_mutant ==
    << << "-" >> >>
    \o [i \in 1..Len(string_digits) |-> << string_digits[i] >>]
    \o [i \in 1..Len(string_ascii_uppercase) |-> << string_ascii_uppercase[i] >>]

model_dictionary ==
    << << "-", "-" >> >>
    \o [i \in 1..Len(string_digits) |-> << string_digits[i] >>]
    \o [i \in 1..Len(string_ascii_uppercase) |-> << string_ascii_uppercase[i] >>]

\* list[i] of Python: a negative i counts from the end, anything else is IndexError
PyIndex(list, i) ==
    IF 0 <= i /\ i < Len(list) THEN [ok |-> TRUE, v |-> list[i + 1]]
    ELSE IF -Len(list) <= i /\ i < 0 THEN [ok |-> TRUE, v |-> list[Len(list) + i + 1]]
    ELSE [ok |-> FALSE, v |-> <<>>]

RECURSIVE ModelLoop(_, _, _)
ModelLoop(data, address, result_) ==
    IF address >= MODEL_ADDRESS + MODEL_LENGTH THEN [exc |-> "none", v |-> result_]
    ELSE IF address \notin DOMAIN data[Register] THEN [exc |-> "KeyError", v |-> <<>>]
    ELSE LET p == parse_ecoforest_int(data[Register][address])
         IN IF ~p.ok THEN [exc |-> "ValueError", v |-> <<>>]
            ELSE LET s == PyIndex(model_dictionary, p.v)
                 IN IF ~s.ok THEN [exc |-> "IndexError", v |-> <<>>]
                    ELSE ModelLoop(data, address + 1, result_ \o s.v)

parse_model_name(data) == ModelLoop(data, MODEL_ADDRESS, <<>>)

---------------------------------------------------------------------------
(* Results of a public operation *)

NoResult == [status |-> "none", exc |-> "", src |-> "", model |-> <<>>, info |-> EmptyMap]

Raise(exc, src) ==
    [status |-> "raise", exc |-> exc, src |-> src, model |-> <<>>, info |-> EmptyMap]

\* EcoGeoDevice.build(model_name, device_info)
Snapshot(model_name, device_info) ==
    [status |-> "ok", exc |-> "", src |-> "", model |-> model_name, info |-> device_info]

---------------------------------------------------------------------------
(* get(): the snapshot build that follows the reads *)

\* the match statement's `continue` arms: "custom" and the default arm
FirstPassSkips(type) == type \notin {"int", "float", "boolean"}

RECURSIVE FirstPass(_, _, _, _)
FirstPass(map, st, i, device_info) ==
    IF i > Len(MappingOrder) THEN [exc |-> "none", info |-> device_info]
    ELSE LET name == MappingOrder[i]
             definition == map[name]
         IN IF FirstPassSkips(definition.type)
            THEN FirstPass(map, st, i + 1, device_info)
            ELSE IF \/ "address" \notin DOMAIN definition
                    \/ definition.address \notin DOMAIN st[definition.data_type]
            THEN [exc |-> "KeyError", info |-> device_info]
            ELSE LET raw == st[definition.data_type][definition.address]
                     int_ == parse_ecoforest_int(raw)
                     value == CASE definition.type = "int" ->
                                       [ok |-> int_.ok, v |-> IntValue(int_.v)]
                                [] definition.type = "float" -> parse_ecoforest_float(raw)
                                [] OTHER -> parse_ecoforest_bool(raw)
                 IN IF ~value.ok THEN [exc |-> "ValueError", info |-> device_info]
                    ELSE FirstPass(map, st, i + 1, (name :> value.v) @@ device_info)

\* device_info[name] == -999.9
IsSentinel(value) == value.t = "float" /\ value.v = -9999

RECURSIVE SecondPass(_, _, _, _)
SecondPass(map, st, i, device_info) ==
    IF i > Len(MappingOrder) THEN [exc |-> "none", src |-> "", info |-> device_info]
    ELSE LET name == MappingOrder[i]
             definition == map[name]
             temperature == definition.entity_type = "temperature"
             info1 == IF temperature /\ name \in DOMAIN device_info
                         /\ IsSentinel(device_info[name])
                      THEN (name :> NoneValue) @@ device_info
                      ELSE device_info
         IN IF temperature /\ name \notin DOMAIN device_info
            THEN [exc |-> "KeyError", src |-> "get", info |-> device_info]
            ELSE IF definition.type # "custom" THEN SecondPass(map, st, i + 1, info1)
            ELSE IF "value_fn" \notin DOMAIN definition
            THEN [exc |-> "KeyError", src |-> "get", info |-> device_info]
            ELSE LET alarm == get_alarm(st)
                 IN IF alarm.exc # "none"
                    THEN [exc |-> alarm.exc, src |-> "get_alarm", info |-> device_info]
                    ELSE SecondPass(map, st, i + 1, (name :> IntValue(alarm.v)) @@ info1)

\* lines 111-139 of get(): both passes, then the model name, then the snapshot
get_build(map, st) ==
    LET first == FirstPass(map, st, 1, EmptyMap)
    IN IF first.exc # "none" THEN Raise(first.exc, "get")
       ELSE LET second == SecondPass(map, st, 1, first.info)
            IN IF second.exc # "none" THEN Raise(second.exc, second.src)
               ELSE LET model == parse_model_name(st)
                    IN IF model.exc # "none" THEN Raise(model.exc, "parse_model_name")
                       ELSE Snapshot(model.v, second.info)

\* the requests of a poll in the order get() sends them
PollPlan ==
    [i \in 1..Len(REQUESTS[Coil]) |-> [dt |-> Coil, request |-> REQUESTS[Coil][i]]]
    \o [i \in 1..Len(REQUESTS[Register]) |->
            [dt |-> Register, request |-> REQUESTS[Register][i]]]

\* the data of the _request call made by _load_data
ReadData(i) ==
    [idOperacion |-> OperationsGet[PollPlan[i].dt],
     dir |-> PollPlan[i].request.address,
     num |-> PollPlan[i].request.length]

EmptyState == (Coil :> EmptyMap) @@ (Register :> EmptyMap)

Sent(data) == [k |-> "request", data |-> data]
\* a response as the log keeps it: its status line and the number of its values
Received(response) ==
    [k |-> "response", key |-> response.key, status |-> response.status,
     n |-> Len(response.fields) - 2]

---------------------------------------------------------------------------
(* The device behind the Transport *)

ReadAddresses(dt) ==
    UNION {PyRange(REQUESTS[dt][i].address, REQUESTS[dt][i].length) :
              i \in 1..Len(REQUESTS[dt])}

MappedAddresses == {MAPPING[n].address : n \in {m \in DOMAIN MAPPING : MAPPING[m].type # "custom"}}

\* every address a request of the engine can name
DeviceAddresses(dt) == ReadAddresses(dt) \cup MappedAddresses

FactoryDevice ==
    (Coil :> [a \in DeviceAddresses(Coil) |-> << "0" >>])
    @@
    (Register :> [a \in DeviceAddresses(Register) |-> << "0", "0", "0", "0" >>])

DataTypeOf(idOperacion) ==
    IF idOperacion \in {OP_TYPE_GET_SWITCH, OP_TYPE_SET_SWITCH} THEN Coil ELSE Register

StatusKey(idOperacion) ==
    CASE idOperacion = OP_TYPE_GET_SWITCH -> "error_geo_get_bit"
      [] idOperacion = OP_TYPE_SET_SWITCH -> "error_geo_set_bit"
      [] idOperacion = OP_TYPE_GET_REGISTER -> "error_geo_get_reg"
      [] OTHER -> "error_geo_set_reg"

DeviceValues(data) ==
    [i \in 1..data.num |-> device[DataTypeOf(data.idOperacion)][data.dir + i - 1]]

\* what the Transport may answer to a read: the values, the values cut short,
\* or a non-zero status
ReadResponses(data) ==
    { Response(StatusKey(data.idOperacion), "0", DeviceValues(data)),
      Response(StatusKey(data.idOperacion), "0",
               SubSeq(DeviceValues(data), 1, data.num - 1)),
      Response(StatusKey(data.idOperacion), "1", <<>>) }

\* what the Transport may answer to a write: done, or a non-zero status
WriteResponses(data) ==
    { Response(StatusKey(data.idOperacion), "0", <<>>),
      Response(StatusKey(data.idOperacion), "1", <<>>) }

---------------------------------------------------------------------------
(* The public operations, cut at their awaits *)

Callable == pc \in {"idle", "done"}

\* the operation ends here: it returns or raises `r`
Finish(r) ==
    /\ pc' = "done"
    /\ req' = 0
    /\ result' = r

\* get() up to its first await: the first read request is sent
StartPoll(sofar) ==
    /\ pc' = "read"
    /\ req' = 1
    /\ state' = EmptyState
    /\ log' = Append(sofar, Sent(ReadData(1)))
    /\ result' = NoResult

get ==
    /\ Callable
    /\ op' = [kind |-> "get", name |-> ""]
    /\ StartPoll(<<>>)
    /\ UNCHANGED <<device, mapping, calls, codec>>

\* a read is answered: _request returns or raises, _load_data fills `state`, and
\* get() goes on to its next await or to the end
Resume(response) ==
    /\    LET parsed == _parse(response)
              plan == PollPlan[req]
              loaded == _load_data(plan.request.address, plan.request.length,
                                   parsed.values)
              state1 == [state EXCEPT ![plan.dt] = loaded.result @@ @]
              log1 == Append(log, Received(response))
          IN IF ~parsed.ok
             THEN /\ Finish(Raise("Exception: bad response", "_parse"))
                  /\ log' = log1
                  /\ UNCHANGED state
             ELSE IF ~loaded.ok
             THEN /\ Finish(Raise("IndexError", "_load_data"))
                  /\ log' = log1
                  /\ UNCHANGED state
             ELSE IF req < Len(PollPlan)
             THEN /\ req' = req + 1
                  /\ state' = state1
                  /\ log' = Append(log1, Sent(ReadData(req + 1)))
                  /\ UNCHANGED <<pc, result>>
             ELSE /\ Finish(get_build(mapping, state1))
                  /\ state' = state1
                  /\ log' = log1
    /\ UNCHANGED <<device, mapping, op, calls, codec>>

get_resume ==
    /\ pc = "read"
    /\ \E response \in ReadResponses(ReadData(req)) : Resume(response)

\* the same step when the Transport serves every read in full
get_resume_served ==
    /\ pc = "read"
    /\ Resume(Response(StatusKey(ReadData(req).idOperacion), "0",
                       DeviceValues(ReadData(req))))

\* StartWrite with the request sent before the name is looked up
StartWrite_mutant(kind, name, unknown, idOperacion, arg) ==
    /\ calls' = calls + 1
    /\ op' = [kind |-> kind, name |-> name]
    /\ state' = EmptyState
    /\ log' = << Sent([idOperacion |-> idOperacion,
                       dir |-> IF name \in DOMAIN mapping
                                  /\ "address" \in DOMAIN mapping[name]
                               THEN mapping[name].address ELSE 11,
                       num |-> 1,
                       arg |-> arg]) >>
    /\ IF name \notin DOMAIN mapping
       THEN Finish(Raise(unknown, kind))
       ELSE IF "address" \notin DOMAIN mapping[name]
       THEN Finish(Raise("KeyError", kind))
       ELSE /\ pc' = "write"
            /\ req' = 0
            /\ result' = NoResult
    /\ UNCHANGED <<device, mapping, codec>>

\* a write operation up to its first await
StartWrite(kind, name, unknown, idOperacion, arg) ==
    /\ calls' = calls + 1
    /\ op' = [kind |-> kind, name |-> name]
    /\ state' = EmptyState
    /\ IF name \notin DOMAIN mapping
       THEN /\ Finish(Raise(unknown, kind))
            /\ log' = <<>>
       ELSE IF "address" \notin DOMAIN mapping[name]
       THEN /\ Finish(Raise("KeyError", kind))
            /\ log' = <<>>
       ELSE /\ pc' = "write"
            /\ req' = 0
            /\ result' = NoResult
            /\ log' = << Sent([idOperacion |-> idOperacion,
                               dir |-> mapping[name].address,
                               num |-> 1,
                               arg |-> arg]) >>
    /\ UNCHANGED <<device, mapping, codec>>

\* int(on) as the device stores it
SwitchArg(on) == IF on THEN << "1" >> ELSE << "0" >>

turn_switch(name, on) ==
    /\ Callable
    /\ calls < MaxWrites
    /\ StartWrite("turn_switch", name, "Exception: unknown switch",
                  OP_TYPE_SET_SWITCH, SwitchArg(on))

set_numeric_value(name, value) ==
    /\ Callable
    /\ calls < MaxWrites
    /\ StartWrite("set_numeric_value", name, "Exception: unknown register",
                  OP_TYPE_SET_REGISTER, convert_to_ecoforest_int(value))

\* the write is answered: on success the device holds the value and the re-poll
\* starts; otherwise _request raises
write_resume ==
    /\ pc = "write"
    /\ \E response \in WriteResponses(log[1].data) :
          LET data == log[1].data
              log1 == Append(log, Received(response))
          IN /\ device' = IF response.status = "0"
                           THEN [device EXCEPT
                                   ![DataTypeOf(data.idOperacion)][data.dir] = data.arg]
                           ELSE device
             /\ IF _parse(response).ok
                THEN StartPoll(log1)
                ELSE /\ Finish(Raise("Exception: bad response", "_parse"))
                     /\ log' = log1
                     /\ UNCHANGED state
    /\ UNCHANGED <<mapping, op, calls, codec>>

---------------------------------------------------------------------------
(* The value codec applied on its own *)

CodecIdle == [at |-> "idle", value |-> 0, wire |-> <<>>, decoded |-> [ok |-> FALSE, v |-> 0]]

\* values handed to the encoder, in hundredths: every tenths value of the signed
\* 16-bit range, followed by a hundredths digit of at most `frac`
CodecInputs(frac) ==
    {10 * v + (IF v < 0 THEN -f ELSE f) : v \in (-32768)..32767, f \in 0..frac}

codec_encode ==
    /\ codec.at = "idle"
    /\ \E value \in CodecInputs(MaxFrac) :
          codec' = [at |-> "encoded", value |-> value,
                    wire |-> convert_to_ecoforest_int(value),
                    decoded |-> [ok |-> FALSE, v |-> 0]]
    /\ UNCHANGED <<device, mapping, pc, op, req, state, log, result, calls>>

codec_decode ==
    /\ codec.at = "encoded"
    /\ codec' = [codec EXCEPT !.at = "decoded",
                              !.decoded = parse_ecoforest_int(codec.wire)]
    /\ UNCHANGED <<device, mapping, pc, op, req, state, log, result, calls>>

---------------------------------------------------------------------------
(* Specifications *)

InitWith(dev, map) ==
    /\ device = dev
    /\ mapping = map
    /\ pc = "idle"
    /\ op = [kind |-> "", name |-> ""]
    /\ req = 0
    /\ state = EmptyState
    /\ log = <<>>
    /\ result = NoResult
    /\ calls = 0
    /\ codec = CodecIdle

\* names a caller may pass to a write operation
Names == DOMAIN MAPPING \cup {"not_a_real_field"}

\* values a caller may pass to set_numeric_value, in hundredths:
\* 0.0, 45.5, -0.1 and -999.9
Values == {0, 4550, -10, -99990}

Init == InitWith(FactoryDevice, MAPPING)

Next ==
    \/ get
    \/ get_resume
    \/ \E name \in Names, on \in BOOLEAN : turn_switch(name, on)
    \/ \E name \in Names, value \in Values : set_numeric_value(name, value)
    \/ write_resume

Spec == Init /\ [][Next]_vars

\* the codec over the whole signed 16-bit range
NextCodec ==
    \/ codec_encode
    \/ codec_decode

\* no device is attached while the codec runs on its own
InitCodec == InitWith(EmptyState, MAPPING)

SpecCodec == InitCodec /\ [][NextCodec]_vars

\* sets of at most n elements of S
RECURSIVE UpTo(_, _)
UpTo(S, n) ==
    IF n = 0 THEN {{}}
    ELSE LET smaller == UpTo(S, n - 1)
         IN smaller \cup {T \cup {a} : T \in smaller, a \in S}

\* raw coil values that are not "0": "1" and "00"
ActiveCoilValues == { << "1" >>, << "0", "0" >> }

\* devices whose coils differ from "0" at no more than n addresses of the alarm
\* table and of the mapped coils
AlarmDevices(n) ==
    {[FactoryDevice EXCEPT ![Coil] = [a \in DOMAIN @ |-> IF a \in T THEN raw ELSE @[a]]] :
        T \in UpTo(Range(alarm_registers) \cup {83, 213}, n),
        raw \in ActiveCoilValues}

\* polls of a device whose Transport serves every read
NextPoll ==
    \/ get
    \/ get_resume_served

InitAlarm == \E dev \in AlarmDevices(MaxActive) : InitWith(dev, MAPPING)

SpecAlarm == InitAlarm /\ [][NextPoll]_vars

\* raw model registers: indices 1 ('0'), 11 ('A'), 36 ('Z'), 37, -1, -37, -38
ModelValues ==
    { << "0", "0", "0", "1" >>, << "0", "0", "0", "b" >>, << "0", "0", "2", "4" >>,
      << "0", "0", "2", "5" >>, << "f", "f", "f", "f" >>, << "f", "f", "d", "b" >>,
      << "f", "f", "d", "a" >> }

ModelBlock == PyRange(MODEL_ADDRESS, MODEL_LENGTH)

\* devices whose model block differs from "0000" at no more than n registers
ModelDevices(n) ==
    UNION {{[FactoryDevice EXCEPT ![Register] = f @@ @] : f \in [T -> ModelValues]} :
              T \in UpTo(ModelBlock, n)}

InitModel == \E dev \in ModelDevices(MaxSymbols) : InitWith(dev, MAPPING)

SpecModel == InitModel /\ [][NextPoll]_vars

\* wire types a mapping table may give a field: the three decoded ones and one
\* the match statement does not know
WireTypes == {"int", "float", "boolean", "string"}

\* mapping tables that differ from MAPPING in the wire type of one field
MappingTables ==
    {[MAPPING EXCEPT ![n] = [k \in DOMAIN @ |-> IF k = "type" THEN t ELSE @[k]]] :
        n \in DOMAIN MAPPING, t \in WireTypes}

InitMapping == \E map \in MappingTables : InitWith(FactoryDevice, map)

NextRead ==
    \/ get
    \/ get_resume

SpecMapping == InitMapping /\ [][NextRead]_vars

---------------------------------------------------------------------------
(* Properties *)

\* a value in hundredths that is v/10 for an integer v of the signed 16-bit range
IsInt16Tenths(value) == value % 10 = 0 /\ value \div 10 \in (-32768)..32767

\* C1 (as claimed): for every integer v in [-32768, 32767], decoding the encoding
\* of v/10 returns exactly v.
C1_RoundTripWholeRange ==
    (codec.at = "decoded" /\ IsInt16Tenths(codec.value))
        => (codec.decoded.ok /\ 10 * codec.decoded.v = codec.value)

\* C1 (amended): for every integer v in [-32767, 32767], decoding the encoding of
\* v/10 returns exactly v; for v = -32768 the encoding is "8000", which decodes to
\* +32768, because the decoder takes every value up to and including 32768 as
\* non-negative.
C1_RoundTrip ==
    (codec.at = "decoded" /\ IsInt16Tenths(codec.value))
        => /\ codec.decoded.ok
           /\ Len(codec.wire) = 4
           /\ codec.value # -327680 => 10 * codec.decoded.v = codec.value
           /\ codec.value = -327680 =>
                 (codec.wire = << "8", "0", "0", "0" >> /\ codec.decoded.v = 32768)

C1_Witness ==
    /\ codec.at = "decoded"
    /\ codec.value = -327670
    /\ codec.wire = << "8", "0", "0", "1" >>
    /\ codec.decoded = [ok |-> TRUE, v |-> -32767]

IsWrite == op.kind \in {"turn_switch", "set_numeric_value"}

UnknownField == IF op.kind = "turn_switch" THEN "Exception: unknown switch"
                ELSE "Exception: unknown register"

\* a boolean Coil field of the mapping table (a switch or a button)
IsCoilSwitch(name) ==
    /\ name \in DOMAIN MAPPING
    /\ MAPPING[name].data_type = Coil
    /\ MAPPING[name].type = "boolean"

\* a decoded Register field of the mapping table
IsNumericRegister(name) ==
    /\ name \in DOMAIN MAPPING
    /\ MAPPING[name].data_type = Register
    /\ MAPPING[name].type \in {"int", "float"}

\* C2: turn_switch fails, without any Transport call, for every name that is not a
\* Coil switch field, and set_numeric_value does so for every name that is not a
\* numeric Register field.
C2_WritesOnlyItsKind ==
    (/\ IsWrite
     /\ \/ op.kind = "turn_switch" /\ ~IsCoilSwitch(op.name)
        \/ op.kind = "set_numeric_value" /\ ~IsNumericRegister(op.name))
        => /\ log = <<>>
           /\ pc = "done"
           /\ result.status = "raise"

\* C3: a write operation called with a name absent from the mapping table fails at
\* once with the unknown-field error and the Transport receives no call at all.
C3_UnknownNameNoTransportCall ==
    (IsWrite /\ op.name \notin DOMAIN MAPPING)
        => /\ pc = "done"
           /\ log = <<>>
           /\ result = Raise(UnknownField, op.kind)

C3_Witness ==
    /\ op = [kind |-> "turn_switch", name |-> "not_a_real_field"]
    /\ pc = "done"
    /\ log = <<>>
    /\ result.status = "raise"

\* C4: in a write operation one single-address write request (2011 from
\* turn_switch, 2012 from set_numeric_value) is sent first; a read request is sent
\* only after that write's success acknowledgement; an error answer to the write
\* ends the operation with that error and no read; and a returned snapshot is
\* built from the five reads of the poll, all answered after the acknowledgement,
\* so it shows the device as the write left it.
C4_WriteThenPoll ==
    IsWrite =>
        /\ log # <<>> =>
              /\ log[1].k = "request"
              /\ log[1].data.num = 1
              /\ log[1].data.idOperacion =
                    (IF op.kind = "turn_switch" THEN 2011 ELSE 2012)
              /\ log[1].data.dir = MAPPING[op.name].address
              /\ (\/ op.kind = "turn_switch" /\ IsCoilSwitch(op.name)
                  \/ op.kind = "set_numeric_value" /\ IsNumericRegister(op.name))
                    => log[1].data.idOperacion
                          = OperationsSet[MAPPING[op.name].data_type]
        /\ \A i \in 2..Len(log) :
              log[i].k = "request" =>
                  /\ log[i].data.idOperacion \in {2001, 2002}
                  /\ i >= 3
                  /\ log[2].k = "response"
                  /\ log[2].status = "0"
        /\ (Len(log) >= 2 /\ log[2].status # "0") =>
              /\ Len(log) = 2
              /\ pc = "done"
              /\ result = Raise("Exception: bad response", "_parse")
        /\ result.status = "ok" =>
              /\ Len(PollPlan) = 5
              /\ Len(log) = 12
              /\ \A i \in 1..5 :
                    /\ log[2 * i + 1] = Sent(ReadData(i))
                    /\ log[2 * i + 2].k = "response"
                    /\ log[2 * i + 2].status = "0"
                    /\ log[2 * i + 2].n = ReadData(i).num
              /\ \A dt \in DataTypes : \A a \in DOMAIN state[dt] :
                    state[dt][a] = device[dt][a]
              /\ device[DataTypeOf(log[1].data.idOperacion)][log[1].data.dir]
                    = log[1].data.arg
              /\ result = get_build(mapping, state)

C4_Witness ==
    /\ op = [kind |-> "set_numeric_value", name |-> "number_dhw_setpoint"]
    /\ result.status = "ok"
    /\ Len(log) = 12
    /\ result.info["number_dhw_setpoint"] = FloatValue(455)

\* the alarm table positions whose coil is not the string "0"
ActiveAlarms(coils) ==
    {i \in 1..Len(alarm_registers) : coils[alarm_registers[i]] # << "0" >>}

\* C5: get_alarm returns the earliest address in alarm-table order whose raw value
\* is not the string "0", and returns 0 exactly when every alarm-table address
\* holds "0".
C5_FirstFaultAlarm ==
    result.status = "ok" =>
        LET active == ActiveAlarms(state[Coil])
            alarm == result.info["alarm"]
        IN /\ alarm.t = "int"
           /\ active = {} <=> alarm.v = 0
           /\ active # {} =>
                 \E i \in active :
                    /\ alarm.v = alarm_registers[i]
                    /\ \A j \in active : i <= j

C5_Witness ==
    /\ result.status = "ok"
    /\ state[Coil][3] = << "1" >>
    /\ state[Coil][18] = << "1" >>
    /\ result.info["alarm"] = IntValue(3)

\* the alphabet index a model register decodes to
ModelIndex(a) == parse_ecoforest_int(state[Register][a])

ModelIndicesInAlphabet ==
    \A a \in ModelBlock : ModelIndex(a).ok /\ ModelIndex(a).v \in 0..36

\* the symbol of an alphabet index in 0..36
AlphabetSymbol(i) ==
    IF i = 0 THEN << "-", "-" >>
    ELSE IF i <= 10 THEN << string_digits[i] >>
    ELSE << string_ascii_uppercase[i - 10] >>

RECURSIVE SymbolsFrom(_)
SymbolsFrom(a) ==
    IF a >= MODEL_ADDRESS + MODEL_LENGTH THEN <<>>
    ELSE AlphabetSymbol(ModelIndex(a).v) \o SymbolsFrom(a + 1)

\* C6 (as claimed): for a model block of alphabet indices in [0,36] the model name
\* has exactly 6 characters; an all-zero block decodes to "------".
C6_ModelNameSixCharacters ==
    (result.status = "ok" /\ ModelIndicesInAlphabet)
        => Len(result.model) = 6

\* C6 (amended): for a model block of alphabet indices in [0,36] the model name is
\* the concatenation of exactly 6 alphabet symbols, one per register in address
\* order; the symbol of index 0 is the two-character placeholder "--", so the
\* name has 6 characters plus one for each register holding 0, and an all-zero
\* block decodes to twelve dashes.
C6_ModelNameSixSymbols ==
    (result.status = "ok" /\ ModelIndicesInAlphabet)
        => /\ result.model = SymbolsFrom(MODEL_ADDRESS)
           /\ Len(result.model) =
                 6 + Cardinality({a \in ModelBlock : ModelIndex(a).v = 0})
           /\ (\A a \in ModelBlock : ModelIndex(a).v = 0) =>
                 result.model = [i \in 1..12 |-> "-"]

C6_Witness ==
    /\ result.status = "ok"
    /\ \A a \in ModelBlock : state[Register][a] = << "0", "0", "0", "0" >>
    /\ Len(result.model) = 12

\* C7: when some field of the mapping table has a wire type other than int,
\* float, boolean or custom, whatever its entity category, a poll whose reads
\* are all served returns a snapshot that omits that field and holds every other
\* field.
C7_UnknownWireTypeIsSoft ==
    \A n \in DOMAIN mapping :
        (/\ mapping[n].type \notin {"int", "float", "boolean", "custom"}
         /\ pc = "done"
         /\ result.src \notin {"_parse", "_load_data"})
            => /\ result.status = "ok"
               /\ DOMAIN result.info = DOMAIN mapping \ {n}

\* C8: the address of every non-custom field, every coil address of the alarm
\* table and the 6 registers of the model block lie inside the read ranges of
\* their data type, so a poll never fails on a missing address.
C8_ReadRangesCoverLookups ==
    /\ \A n \in DOMAIN mapping :
          mapping[n].type # "custom" =>
              mapping[n].address \in ReadAddresses(mapping[n].data_type)
    /\ Range(alarm_registers) \subseteq ReadAddresses(Coil)
    /\ ModelBlock \subseteq ReadAddresses(Register)
    /\ (pc = "done" /\ result.exc = "KeyError") => result.src = op.kind /\ IsWrite
    /\ result.status = "ok" =>
          /\ \A dt \in DataTypes : DOMAIN state[dt] = ReadAddresses(dt)
          /\ DOMAIN result.info = DOMAIN mapping

C8_Witness ==
    /\ op.kind = "get"
    /\ result.status = "ok"
    /\ 41 \in DOMAIN state[Register]
    /\ 226 \in DOMAIN state[Coil]
    /\ DOMAIN result.info = DOMAIN MAPPING

\* C9: if any of the 6 model registers decodes to a value outside [0,36], negative
\* values included, the poll ends with an index fault and no snapshot.
C9_OutOfRangeSymbolFaults ==
    (/\ pc = "done"
     /\ \A a \in ModelBlock : ModelIndex(a).ok
     /\ \E a \in ModelBlock : ModelIndex(a).v \notin 0..36)
        => /\ result.status = "raise"
           /\ result.exc = "IndexError"

\* the coil addresses of the mapped boolean fields (83 and 213)
MappedCoils ==
    {MAPPING[n].address : n \in {m \in DOMAIN MAPPING : IsCoilSwitch(m)}}

\* C10: the alarm of a snapshot is the same for any two coil spaces that differ
\* only at the coils of mapped boolean fields (so it is the alarm of the coil
\* space with those coils at "0"); hence the snapshot returned by
\* turn_switch("switch_dhw", true) while every fault coil is "0" has alarm 0.
C10_AlarmIgnoresSwitches ==
    result.status = "ok" =>
        /\ get_alarm([state EXCEPT ![Coil] =
                         [a \in DOMAIN @ |-> IF a \in MappedCoils THEN << "0" >> ELSE @[a]]]).v
              = result.info["alarm"].v
        /\ (/\ op = [kind |-> "turn_switch", name |-> "switch_dhw"]
            /\ \A a \in Range(alarm_registers) \ MappedCoils :
                  state[Coil][a] = << "0" >>)
              => result.info["alarm"].v = 0

=============================================================================
